---------------------------- MODULE Spec2Model ----------------------------
(***************************************************************************)
(* Model of scripts/download_samples.py: the sample-dataset downloader.    *)
(*                                                                         *)
(* The state is the filesystem under ROOT (existing directories and files  *)
(* with their contents), the position of main(), its success counter and   *)
(* the history of what the run has done (steps entered, HTTP requests      *)
(* made, what each orchestrator returned).  The environment (network,      *)
(* HTTP status, local file I/O) picks, for every call, the place where the *)
(* call fails, if any.  An exception that nothing catches ends the         *)
(* process with a traceback (pc = "crashed", exit_status = 1).             *)
(*                                                                         *)
(* Three specifications:                                                   *)
(*   Spec              the script, run up to MaxRuns times over the same   *)
(*                     data directory, starting from an empty one; every   *)
(*                     network, status and local I/O fault of the three    *)
(*                     source steps is explored (those of the placeholder  *)
(*                     step are explored in SpecPlaceholders);             *)
(*   SpecHttp          http_download alone, over its possible inputs;      *)
(*   SpecPlaceholders  the placeholder writer alone, run and run again     *)
(*                     over folders with and without a README.txt.         *)
(***************************************************************************)
EXTENDS Integers, Sequences, FiniteSets, TLC

VARIABLES
    fs,           \* existing files: path -> content (a sequence)
    dirs,         \* existing directories (paths)
    pc,           \* position of the process
    wri_i,        \* index of the next candidate of download_wri_sample's loop
    successes,    \* main's counter
    exit_status,  \* -1 while running, 0 after "return 0", 1 after a traceback
    steps,        \* this run's steps of main, in the order they were entered
    requests,     \* this run's http_download calls: [url, ok, partial]
    returned,     \* this run's orchestrator results: "pending", "path", "None"
    nCand,        \* length of download_wri_sample's candidate list
    run,          \* number of runs of the script started so far
    readme_before,\* whether data/wri/README.txt existed when download_wri_sample was entered
    call          \* the call of a stand-alone specification: its input and result

vars == <<fs, dirs, pc, wri_i, successes, exit_status, steps, requests,
          returned, nCand, run, readme_before, call>>

(***************************************************************************)
(* Bounds of the model.                                                    *)
(***************************************************************************)
\* runs of the script over the same data directory
MaxRuns == 2
\* longest candidate list of download_wri_sample that is explored
MaxCandidates == 2
\* most items (chunks, lines, JSON members) written before a write fails
MaxPartial == 1

(***************************************************************************)
(* Paths.  A path is the sequence of its components below ROOT.            *)
(***************************************************************************)
DATA_DIR == <<"data">>

parent(path) == SubSeq(path, 1, Len(path) - 1)

\* the path and every ancestor of it below ROOT (ROOT itself always exists)
WithParents(path) == {SubSeq(path, 1, n) : n \in 1..Len(path)}

(***************************************************************************)
(* File primitives: open(path, "w"/"wb") creates or truncates, write       *)
(* appends at the file position, nothing ever deletes.                     *)
(***************************************************************************)
exists(f, path) == path \in DOMAIN f

\* (variant: the file is opened for appending, nothing is truncated)
open_append(f, path) ==
    [q \in DOMAIN f \cup {path} |-> IF q \in DOMAIN f THEN f[q] ELSE <<>>]

open_w(f, path) ==
    [q \in DOMAIN f \cup {path} |-> IF q = path THEN <<>> ELSE f[q]]

write(f, path, data) == [f EXCEPT ![path] = @ \o data]

\* Where the environment makes a file write fail: at open (nothing is
\* created), at a write after k items went out, or nowhere.
FileOutcomes ==
    {[stage |-> s, k |-> 0] : s \in {"mkdir", "open", "none"}}
    \cup {[stage |-> "write", k |-> k] : k \in 0..MaxPartial}

NoFault == [stage |-> "none", k |-> 0]

\* "with open(path, 'w') as f: <write items>" under outcome o.
\* Result: the filesystem and the exception raised ("" when none).
write_file(f, path, items, o) ==
    IF o.stage = "open" THEN [fs |-> f, exc |-> "OSError"]
    ELSE IF o.stage = "write" /\ o.k < Len(items)
         THEN [fs  |-> write(open_w(f, path), path, SubSeq(items, 1, o.k)),
               exc |-> "OSError"]
    ELSE [fs |-> write(open_w(f, path), path, items), exc |-> ""]

(***************************************************************************)
(* ensure_directory: mkdir(parents=True) only when the path is missing; a  *)
(* mkdir that fails is taken to create nothing.                            *)
(***************************************************************************)
ensure_directory(d, path, o) ==
    IF path \in d THEN [dirs |-> d, exc |-> ""]
    ELSE IF o.stage = "mkdir" THEN [dirs |-> d, exc |-> "OSError"]
    ELSE [dirs |-> d \cup WithParents(path), exc |-> ""]

(***************************************************************************)
(* The remote resources.  A response body arrives as a sequence of chunks  *)
(* (iter_content); a chunk is a sequence of bytes and may be empty.  A     *)
(* byte is tagged with the URL it came from, so bodies of different URLs   *)
(* differ.                                                                 *)
(***************************************************************************)
DEFAULT_DATE == "2020-01-01"

wms(date) ==
    "https://gibs.earthdata.nasa.gov/wms/epsg4326/best/wms.cgi"
    \o "?SERVICE=WMS&REQUEST=GetMap&VERSION=1.3.0"
    \o "&LAYERS=MODIS_Terra_CorrectedReflectance_TrueColor"
    \o "&STYLES=&FORMAT=image/png&TRANSPARENT=TRUE"
    \o "&HEIGHT=512&WIDTH=512&CRS=EPSG:4326"
    \o "&BBOX=40.4,-74.4,41.0,-73.6"
    \o "&TIME=" \o date

eo_url == "https://earthobservatory.nasa.gov/ContentFeature/BlueMarble/Images/land_ocean_ice_2048.jpg"

\* The source lists one candidate; the model explores lists of 1..MaxCandidates
\* entries, the first being the source's and the others further URLs.
candidate_pool ==
    <<"https://datasets.wri.org/dataset/8f6b2c8e-e5b6-4c5e-8b7b-21f5b7a3b0ba/resource/8f37a987-b2e0-4a11-9d53-8b0d2050b1fe/download/sample.csv",
      "https://datasets.wri.org/candidate-2/sample.csv",
      "https://datasets.wri.org/candidate-3/sample.csv",
      "https://datasets.wri.org/candidate-4/sample.csv">>

candidates(n) == SubSeq(candidate_pool, 1, n)

iter_content(url) == << <<<<url, 1>>>>, <<>>, <<<<url, 2>>, <<url, 3>>>> >>

RECURSIVE Flatten(_)
Flatten(chunks) ==
    IF chunks = <<>> THEN <<>> ELSE Head(chunks) \o Flatten(Tail(chunks))

\* the whole response body of a URL
Body(url) == Flatten(iter_content(url))

(***************************************************************************)
(* http_download.                                                          *)
(***************************************************************************)
\* Where the environment makes a download fail: the connection
\* (requests.get), the status (raise_for_status), a local I/O step, or
\* nowhere.
HttpOutcomes ==
    {[stage |-> s, k |-> 0] : s \in {"get", "status"}} \cup FileOutcomes

\* "for chunk in ...: if chunk: f.write(chunk)"
RECURSIVE write_chunks(_, _, _)
write_chunks(f, path, chunks) ==
    IF chunks = <<>> THEN f
    ELSE write_chunks(IF Head(chunks) # <<>> THEN write(f, path, Head(chunks)) ELSE f,
                      path, Tail(chunks))

\* open(out_path, "wb") and the chunk loop (lines 46-49)
stream_to_file(f, out_path, chunks, o) ==
    IF o.stage = "open" THEN [fs |-> f, exc |-> "OSError"]
    ELSE IF o.stage = "write" /\ o.k < Len(chunks)
         THEN [fs  |-> write_chunks(open_w(f, out_path), out_path, SubSeq(chunks, 1, o.k)),
               exc |-> "OSError"]
    ELSE [fs |-> write_chunks(open_w(f, out_path), out_path, chunks), exc |-> ""]

\* the body of the try statement (lines 43-49)
try_download(f, d, url, out_path, o) ==
    IF o.stage = "get" THEN [fs |-> f, dirs |-> d, exc |-> "ConnectionError"]
    ELSE IF o.stage = "status" THEN [fs |-> f, dirs |-> d, exc |-> "HTTPError"]
    ELSE LET e == ensure_directory(d, parent(out_path), o) IN
         IF e.exc # "" THEN [fs |-> f, dirs |-> d, exc |-> e.exc]
         ELSE LET w == stream_to_file(f, out_path, iter_content(url), o) IN
              [fs |-> w.fs, dirs |-> e.dirs, exc |-> w.exc]

\* (variant: "except requests.RequestException", which lets an OSError pass)
except_RequestException(exc) == exc \in {"ConnectionError", "HTTPError"}

\* "except Exception": the exception classes the handler catches
except_Exception(exc) == exc \in {"ConnectionError", "HTTPError", "OSError"}

\* Result: filesystem, directories, the value returned, and the exception
\* that leaves the function ("" when none).
http_download(f, d, url, out_path, o) ==
    LET t == try_download(f, d, url, out_path, o) IN
    IF t.exc = "" THEN [fs |-> t.fs, dirs |-> t.dirs, ret |-> TRUE, exc |-> ""]
    ELSE IF except_Exception(t.exc)
         THEN [fs |-> t.fs, dirs |-> t.dirs, ret |-> FALSE, exc |-> ""]
    ELSE [fs |-> t.fs, dirs |-> t.dirs, ret |-> FALSE, exc |-> t.exc]

(***************************************************************************)
(* save_metadata.  json.dump(metadata, f, indent=2, sort_keys=True) writes *)
(* the members in the order of their keys; a member is <<key, value>>.     *)
(***************************************************************************)
KeyOrder == <<"bbox", "format", "layer", "license", "notes", "projection",
              "size", "source", "title", "url">>

json_dump(metadata) ==
    LET keys == SelectSeq(KeyOrder, LAMBDA k : k \in DOMAIN metadata) IN
    [i \in 1..Len(keys) |-> <<keys[i], metadata[keys[i]]>>]

save_metadata(f, d, path, metadata, o) ==
    LET e == ensure_directory(d, parent(path), o) IN
    IF e.exc # "" THEN [fs |-> f, dirs |-> d, exc |-> e.exc]
    ELSE LET w == write_file(f, path, json_dump(metadata), o) IN
         [fs |-> w.fs, dirs |-> e.dirs, exc |-> w.exc]

(***************************************************************************)
(* The per-source orchestrators.  Result: filesystem, directories, the     *)
(* value returned ("path" or "None"), the exception that leaves the        *)
(* function ("" when none) and the http_download calls made.               *)
(***************************************************************************)
worldview_dir == DATA_DIR \o <<"worldview">>
worldview_png(date) == worldview_dir \o <<"worldview_truecolor_" \o date \o ".png">>
worldview_json(date) == worldview_dir \o <<"worldview_truecolor_" \o date \o ".json">>

worldview_metadata(date) ==
    [source     |-> "NASA GIBS / Worldview",
     layer      |-> "MODIS_Terra_CorrectedReflectance_TrueColor",
     projection |-> "EPSG:4326",
     bbox       |-> <<"40.4", "-74.4", "41.0", "-73.6">>,
     size       |-> <<512, 512>>,
     format     |-> "image/png",
     url        |-> wms(date),
     license    |-> "Publicly available imagery via NASA GIBS; see NASA usage policies"]

\* (variant: the sidecar is written whether or not the download succeeded)
fetch_with_sidecar_unconditional(f, d, url, out_path, json_path, metadata, oh, om) ==
    LET h == http_download(f, d, url, out_path, oh)
        m == save_metadata(h.fs, h.dirs, json_path, metadata, om) IN
    [fs |-> m.fs, dirs |-> m.dirs,
     ret |-> IF h.ret /\ m.exc = "" THEN "path" ELSE "None",
     exc |-> m.exc,
     reqs |-> <<[url |-> url, ok |-> h.ret,
                 partial |-> oh.stage = "write" /\ oh.k > 0]>>]

\* the part every orchestrator shares: "ok = http_download(url, out_path);
\* if ok: save_metadata(...); return out_path" and otherwise "return None"
\* (worldview: lines 83-99, earth observatory: lines 115-127)
fetch_with_sidecar(f, d, url, out_path, json_path, metadata, oh, om) ==
    LET h == http_download(f, d, url, out_path, oh) IN
    IF h.exc # ""
    THEN [fs |-> h.fs, dirs |-> h.dirs, ret |-> "None", exc |-> h.exc, reqs |-> <<>>]
    ELSE LET req == <<[url |-> url, ok |-> h.ret,
                       partial |-> oh.stage = "write" /\ oh.k > 0]>> IN
         IF h.ret
         THEN LET m == save_metadata(h.fs, h.dirs, json_path, metadata, om) IN
              [fs |-> m.fs, dirs |-> m.dirs,
               ret |-> IF m.exc = "" THEN "path" ELSE "None",
               exc |-> m.exc, reqs |-> req]
         ELSE [fs |-> h.fs, dirs |-> h.dirs, ret |-> "None", exc |-> "", reqs |-> req]

download_worldview_sample(f, d, date, od, oh, om) ==
    LET e == ensure_directory(d, worldview_dir, od) IN
    IF e.exc # ""
    THEN [fs |-> f, dirs |-> d, ret |-> "None", exc |-> e.exc, reqs |-> <<>>]
    ELSE fetch_with_sidecar(f, e.dirs, wms(date), worldview_png(date),
                            worldview_json(date), worldview_metadata(date), oh, om)

earth_observatory_dir == DATA_DIR \o <<"earth_observatory">>
earth_observatory_jpg == earth_observatory_dir \o <<"sample_earth_observatory.jpg">>
earth_observatory_json == earth_observatory_dir \o <<"sample_earth_observatory.json">>

earth_observatory_metadata ==
    [source  |-> "NASA Earth Observatory",
     title   |-> "Blue Marble (sample image)",
     url     |-> eo_url,
     license |-> "Please see NASA Earth Observatory usage guidelines"]

download_earth_observatory_sample(f, d, od, oh, om) ==
    LET e == ensure_directory(d, earth_observatory_dir, od) IN
    IF e.exc # ""
    THEN [fs |-> f, dirs |-> d, ret |-> "None", exc |-> e.exc, reqs |-> <<>>]
    ELSE fetch_with_sidecar(f, e.dirs, eo_url, earth_observatory_jpg,
                            earth_observatory_json, earth_observatory_metadata, oh, om)

(***************************************************************************)
(* download_wri_sample: the candidate loop and the fallback.               *)
(***************************************************************************)
wri_dir == DATA_DIR \o <<"wri">>
wri_csv == wri_dir \o <<"wri_sample.csv">>
wri_json == wri_dir \o <<"wri_sample.json">>
wri_readme == wri_dir \o <<"README.txt">>

wri_metadata(url) ==
    [source |-> "World Resources Institute (WRI) Data Explorer",
     url    |-> url,
     notes  |-> "Small sample CSV for demonstration; replace with a project-relevant dataset"]

wri_readme_text ==
    <<"Could not fetch a small WRI CSV automatically.",
      "Please visit https://data.wri.org/ and download a small CSV, then place it here as wri_sample.csv.">>

\* one iteration of "for url in candidates" (lines 146-157); ret is "path"
\* when the iteration returns from the function and "None" when the loop
\* goes on
wri_iteration(f, d, url, oh, om) ==
    fetch_with_sidecar(f, d, url, wri_csv, wri_json, wri_metadata(url), oh, om)

\* after the loop (lines 159-165): write the instructions, return None
wri_fallback(f, o) == write_file(f, wri_readme, wri_readme_text, o)

(***************************************************************************)
(* write_placeholders_for_sedac_worldpop_ghsl_copernicus_eotoolkit.        *)
(***************************************************************************)
placeholder_folders == <<"sedac", "worldpop", "ghsl", "eu_copernicus", "eotoolkit">>

placeholders(folder) ==
    CASE folder = "sedac" ->
           <<"SEDAC datasets often require login. Create a free account at https://sedac.ciesin.columbia.edu/.",
             "Once downloaded, place a small sample file here and document it in a metadata JSON.">>
      [] folder = "worldpop" ->
           <<"WorldPop provides country-level population rasters. Visit https://www.worldpop.org/ to download a small country tile.",
             "Place the file here and add a metadata JSON noting the source and license.">>
      [] folder = "ghsl" ->
           <<"GHSL (EU Copernicus) provides population and built-up layers. Visit https://ghsl.jrc.ec.europa.eu/.",
             "Download a small tile (e.g., a small country or region) and place it here with metadata.">>
      [] folder = "eu_copernicus" ->
           <<"Copernicus Services Catalogue contains many datasets. Visit https://www.copernicus.eu/en/access-data/copernicus-services-catalogue.",
             "Download a small, relevant sample and document license and attribution.">>
      [] folder = "eotoolkit" ->
           <<"UN-Habitat Earth Observations Toolkit: https://eotoolkit.unhabitat.org/.",
             "Identify a relevant resource and place a small sample or a link with documentation here.">>

readme_path(folder) == DATA_DIR \o <<folder, "README.txt">>

\* Where the environment makes the placeholder loop fail: at folder number
\* `at` (0: nowhere), in the step `o` names.
NoPlaceholderFault == [at |-> 0, o |-> NoFault]

PlaceholderOutcomes ==
    {NoPlaceholderFault}
    \cup {[at |-> i, o |-> o] : i \in 1..Len(placeholder_folders),
                                o \in {x \in FileOutcomes : x.stage # "none"}}

\* (variant: the text is written without the existence test)
placeholder_iteration_overwrite(f, d, folder, o) ==
    LET e == ensure_directory(d, DATA_DIR \o <<folder>>, o) IN
    IF e.exc # "" THEN [fs |-> f, dirs |-> d, exc |-> e.exc]
    ELSE LET w == write_file(f, readme_path(folder), placeholders(folder), o) IN
         [fs |-> w.fs, dirs |-> e.dirs, exc |-> w.exc]

\* the body of "for folder, text in placeholders.items()" (lines 193-198)
placeholder_iteration(f, d, folder, o) ==
    LET e == ensure_directory(d, DATA_DIR \o <<folder>>, o) IN
    IF e.exc # "" THEN [fs |-> f, dirs |-> d, exc |-> e.exc]
    ELSE IF ~exists(f, readme_path(folder))
         THEN LET w == write_file(f, readme_path(folder), placeholders(folder), o) IN
              [fs |-> w.fs, dirs |-> e.dirs, exc |-> w.exc]
    ELSE [fs |-> f, dirs |-> e.dirs, exc |-> ""]

RECURSIVE placeholder_loop(_, _, _, _)
placeholder_loop(f, d, i, po) ==
    IF i > Len(placeholder_folders) THEN [fs |-> f, dirs |-> d, exc |-> ""]
    ELSE LET r == placeholder_iteration(f, d, placeholder_folders[i],
                                        IF po.at = i THEN po.o ELSE NoFault) IN
         IF r.exc # "" THEN r ELSE placeholder_loop(r.fs, r.dirs, i + 1, po)

write_placeholders_for_sedac_worldpop_ghsl_copernicus_eotoolkit(f, d, po) ==
    placeholder_loop(f, d, 1, po)

(***************************************************************************)
(* main.                                                                   *)
(***************************************************************************)
Sources == {"worldview", "earth_observatory", "wri"}

StepOrder == <<"worldview", "earth_observatory", "wri", "placeholders">>

\* The faults that can happen at all: a mkdir fails only where a directory is
\* missing, and nothing fails after an earlier step of the same call failed.
DirFaults(d, path) ==
    IF path \in d THEN {NoFault} ELSE {o \in FileOutcomes : o.stage \in {"mkdir", "none"}}

\* (inside an orchestrator the parent of out_path exists by the time
\* http_download and save_metadata run: no mkdir happens there)
HttpFaults(od) ==
    IF od.stage # "none" THEN {NoFault}
    ELSE {o \in HttpOutcomes : o.stage # "mkdir"}

FileFaults(oh) ==
    IF oh.stage # "none" THEN {NoFault}
    ELSE {o \in FileOutcomes : o.stage # "mkdir"}

NoCall == [url |-> "", out_path |-> <<>>, had_dir |-> {}, outcome |-> NoFault,
           ret |-> FALSE, exc |-> ""]

\* (variant: the counter is incremented whatever the orchestrator returned)
count_always(n, ret) == n + 1

\* "if download_x(): successes += 1" (lines 205-206, 211-212, 217-218)
count_success(n, ret) == IF ret # "None" THEN n + 1 ELSE n

\* (variant: main returns at the first download that failed)
after_step_return_on_failure(step, ret) ==
    IF ret = "None" THEN "done"
    ELSE CASE step = "worldview" -> "earth_observatory"
           [] step = "earth_observatory" -> "wri"
           [] step = "wri" -> "placeholders"

\* the statement main goes to when an orchestrator has returned
after_step(step, ret) ==
    CASE step = "worldview" -> "earth_observatory"
      [] step = "earth_observatory" -> "wri"
      [] step = "wri" -> "placeholders"

\* (variant: the loop has no return and goes on after a success)
wri_never_returns(ret) == FALSE

\* "return out_path" inside the candidate loop (line 157)
wri_returns(ret) == ret = "path"

\* (variant: the list is walked from its end)
wri_candidate_reversed(n, i) == candidates(n)[n + 1 - i]

\* the candidate the loop's i-th iteration takes (line 146)
wri_candidate(n, i) == candidates(n)[i]

Init ==
    /\ fs = <<>>
    /\ dirs = {}
    /\ pc = "start"
    /\ wri_i = 0
    /\ successes = 0
    /\ exit_status = -1
    /\ steps = <<>>
    /\ requests = <<>>
    /\ returned = [s \in Sources |-> "pending"]
    /\ nCand \in 1..MaxCandidates
    /\ run = 0
    /\ readme_before = FALSE
    /\ call = NoCall

\* an uncaught exception: the interpreter prints the traceback and exits 1
Crash ==
    /\ pc' = "crashed"
    /\ exit_status' = 1
    /\ UNCHANGED <<wri_i, successes, returned>>

\* the script is run: "raise SystemExit(main())", "successes = 0"
Launch ==
    /\ pc \in {"start", "done", "crashed"}
    /\ run < MaxRuns
    /\ run' = run + 1
    /\ pc' = "worldview"
    /\ successes' = 0
    /\ exit_status' = -1
    /\ steps' = <<>>
    /\ requests' = <<>>
    /\ returned' = [s \in Sources |-> "pending"]
    /\ wri_i' = 0
    /\ readme_before' = FALSE
    /\ UNCHANGED <<fs, dirs, nCand, call>>

\* what main does with an orchestrator's result r
Returned(step, r) ==
    /\ fs' = r.fs
    /\ dirs' = r.dirs
    /\ requests' = requests \o r.reqs
    /\ IF r.exc # "" THEN Crash
       ELSE /\ returned' = [returned EXCEPT ![step] = r.ret]
            /\ successes' = count_success(successes, r.ret)
            /\ pc' = after_step(step, r.ret)
            /\ UNCHANGED <<wri_i, exit_status>>

Worldview ==
    /\ pc = "worldview"
    /\ steps' = Append(steps, "worldview")
    /\ \E od \in DirFaults(dirs, worldview_dir) :
       \E oh \in HttpFaults(od) :
       \E om \in FileFaults(oh) :
          Returned("worldview",
                   download_worldview_sample(fs, dirs, DEFAULT_DATE, od, oh, om))
    /\ UNCHANGED <<nCand, run, readme_before, call>>

EarthObservatory ==
    /\ pc = "earth_observatory"
    /\ steps' = Append(steps, "earth_observatory")
    /\ \E od \in DirFaults(dirs, earth_observatory_dir) :
       \E oh \in HttpFaults(od) :
       \E om \in FileFaults(oh) :
          Returned("earth_observatory",
                   download_earth_observatory_sample(fs, dirs, od, oh, om))
    /\ UNCHANGED <<nCand, run, readme_before, call>>

\* download_wri_sample is entered: ensure_directory(out_dir) (lines 135-136)
WriEnter ==
    /\ pc = "wri"
    /\ steps' = Append(steps, "wri")
    /\ readme_before' = exists(fs, wri_readme)
    /\ \E od \in DirFaults(dirs, wri_dir) :
          LET e == ensure_directory(dirs, wri_dir, od) IN
          /\ dirs' = e.dirs
          /\ IF e.exc # "" THEN Crash
             ELSE /\ pc' = "wri_loop"
                  /\ wri_i' = 1
                  /\ UNCHANGED <<successes, exit_status, returned>>
    /\ UNCHANGED <<fs, requests, nCand, run, call>>

\* one iteration of the candidate loop (lines 146-157)
WriIteration ==
    /\ pc = "wri_loop"
    /\ wri_i <= nCand
    /\ \E oh \in HttpFaults(NoFault) :
       \E om \in FileFaults(oh) :
          LET r == wri_iteration(fs, dirs, wri_candidate(nCand, wri_i), oh, om) IN
          IF r.exc = "" /\ ~wri_returns(r.ret)
          THEN /\ fs' = r.fs
               /\ dirs' = r.dirs
               /\ requests' = requests \o r.reqs
               /\ wri_i' = wri_i + 1
               /\ UNCHANGED <<pc, successes, exit_status, returned>>
          ELSE Returned("wri", r)
    /\ UNCHANGED <<steps, nCand, run, readme_before, call>>

\* the loop is exhausted: the instructions file, "return None" (lines 159-165)
WriFallback ==
    /\ pc = "wri_loop"
    /\ wri_i > nCand
    /\ \E o \in FileFaults(NoFault) :
          LET w == wri_fallback(fs, o) IN
          Returned("wri", [fs |-> w.fs, dirs |-> dirs, ret |-> "None",
                           exc |-> w.exc, reqs |-> <<>>])
    /\ UNCHANGED <<steps, nCand, run, readme_before, call>>

\* the placeholder writer, then "return 0" (lines 223-227); here its file
\* operations succeed, SpecPlaceholders explores their faults
Placeholders ==
    /\ pc = "placeholders"
    /\ steps' = Append(steps, "placeholders")
    /\ \E po \in {NoPlaceholderFault} :
          LET r == write_placeholders_for_sedac_worldpop_ghsl_copernicus_eotoolkit(fs, dirs, po) IN
          /\ fs' = r.fs
          /\ dirs' = r.dirs
          /\ IF r.exc # "" THEN Crash
             ELSE /\ pc' = "done"
                  /\ exit_status' = 0
                  /\ UNCHANGED <<wri_i, successes, returned>>
    /\ UNCHANGED <<requests, nCand, run, readme_before, call>>

Next ==
    \/ Launch
    \/ Worldview
    \/ EarthObservatory
    \/ WriEnter
    \/ WriIteration
    \/ WriFallback
    \/ Placeholders

Spec == Init /\ [][Next]_vars

(***************************************************************************)
(* http_download on its own: any of the script's (url, out_path) pairs,    *)
(* the parent directory present or missing, the destination absent or      *)
(* holding earlier content.                                                *)
(***************************************************************************)
HttpInputs ==
    {[url |-> wms(DEFAULT_DATE), out_path |-> worldview_png(DEFAULT_DATE)],
     [url |-> eo_url, out_path |-> earth_observatory_jpg]}
    \cup {[url |-> candidate_pool[i], out_path |-> wri_csv] : i \in 1..MaxCandidates}

OldContents(url) ==
    {<<>>, Body(url),
     <<<<"old", 1>>, <<"old", 2>>, <<"old", 3>>, <<"old", 4>>>>}

InitHttp ==
    /\ pc = "http_call"
    /\ \E inp \in HttpInputs :
       \E had_dir \in {{}, {DATA_DIR}, WithParents(parent(inp.out_path))} :
          /\ call = [NoCall EXCEPT !.url = inp.url, !.out_path = inp.out_path,
                                   !.had_dir = had_dir]
          /\ dirs = had_dir
          /\ fs \in (IF parent(inp.out_path) \in had_dir
                     THEN {<<>>} \cup {(inp.out_path :> c) : c \in OldContents(inp.url)}
                     ELSE {<<>>})
    /\ wri_i = 0
    /\ successes = 0
    /\ exit_status = -1
    /\ steps = <<>>
    /\ requests = <<>>
    /\ returned = [s \in Sources |-> "pending"]
    /\ nCand = 1
    /\ run = 0
    /\ readme_before = FALSE

HttpCall ==
    /\ pc = "http_call"
    /\ \E o \in HttpOutcomes :
          LET r == http_download(fs, dirs, call.url, call.out_path, o) IN
          /\ fs' = r.fs
          /\ dirs' = r.dirs
          /\ call' = [call EXCEPT !.outcome = o, !.ret = r.ret, !.exc = r.exc]
    /\ pc' = "http_done"
    /\ UNCHANGED <<wri_i, successes, exit_status, steps, requests, returned,
                   nCand, run, readme_before>>

NextHttp == HttpCall

SpecHttp == InitHttp /\ [][NextHttp]_vars

(***************************************************************************)
(* The placeholder writer on its own: run, and run again, over provider    *)
(* folders whose README.txt is absent or already there with some content;  *)
(* any of its local I/O steps may fail.                                    *)
(***************************************************************************)
FolderSet == {placeholder_folders[i] : i \in 1..Len(placeholder_folders)}

\* what a folder's README.txt holds beforehand: 0 absent, 1 empty (a write
\* that failed), 2 somebody's own notes, 3 the placeholder text
PreContent(folder, c) ==
    CASE c = 1 -> <<>>
      [] c = 2 -> <<"my own notes">>
      [] c = 3 -> placeholders(folder)

InitPlaceholders ==
    /\ pc = "ph_call"
    /\ \E c \in [FolderSet -> 0..3] :
          /\ fs = [path \in {readme_path(x) : x \in {y \in FolderSet : c[y] # 0}} |->
                      PreContent(path[2], c[path[2]])]
          /\ dirs = UNION {WithParents(parent(readme_path(x))) :
                              x \in {y \in FolderSet : c[y] # 0}}
    /\ wri_i = 0
    /\ successes = 0
    /\ exit_status = -1
    /\ steps = <<>>
    /\ requests = <<>>
    /\ returned = [s \in Sources |-> "pending"]
    /\ nCand = 1
    /\ run = 0
    /\ readme_before = FALSE
    /\ call = NoCall

\* the first run of the writer
PlaceholderCall ==
    /\ pc = "ph_call"
    /\ \E po \in PlaceholderOutcomes :
          LET r == write_placeholders_for_sedac_worldpop_ghsl_copernicus_eotoolkit(fs, dirs, po) IN
          /\ fs' = r.fs
          /\ dirs' = r.dirs
          /\ pc' = IF r.exc # "" THEN "ph_raised" ELSE "ph_once"
    /\ UNCHANGED <<wri_i, successes, exit_status, steps, requests, returned,
                   nCand, run, readme_before, call>>

\* the writer is run again, after it returned or after it raised
PlaceholderAgain ==
    /\ pc \in {"ph_once", "ph_raised"}
    /\ \E po \in PlaceholderOutcomes :
          LET r == write_placeholders_for_sedac_worldpop_ghsl_copernicus_eotoolkit(fs, dirs, po) IN
          /\ fs' = r.fs
          /\ dirs' = r.dirs
          /\ pc' = IF r.exc # "" THEN "ph_raised_again" ELSE "ph_twice"
    /\ UNCHANGED <<wri_i, successes, exit_status, steps, requests, returned,
                   nCand, run, readme_before, call>>

NextPlaceholders == PlaceholderCall \/ PlaceholderAgain

SpecPlaceholders == InitPlaceholders /\ [][NextPlaceholders]_vars

(***************************************************************************)
(* Vocabulary of the properties.                                           *)
(***************************************************************************)
data_file(s) ==
    CASE s = "worldview" -> worldview_png(DEFAULT_DATE)
      [] s = "earth_observatory" -> earth_observatory_jpg
      [] s = "wri" -> wri_csv

sidecar(s) ==
    CASE s = "worldview" -> worldview_json(DEFAULT_DATE)
      [] s = "earth_observatory" -> earth_observatory_json
      [] s = "wri" -> wri_json

\* reading a complete sidecar back: the mapping its members give
json_load(content) ==
    [k \in {content[i][1] : i \in 1..Len(content)} |->
        content[CHOOSE i \in 1..Len(content) : content[i][1] = k][2]]

FilesIn(dir) == {path \in DOMAIN fs : parent(path) = dir}

CandidateUrls == {candidates(nCand)[i] : i \in 1..nCand}

\* this run's attempts of download_wri_sample, in the order they were made
WriRequests == SelectSeq(requests, LAMBDA r : r.url \in CandidateUrls)

AllCandidatesFailed ==
    /\ Len(WriRequests) = nCand
    /\ \A i \in 1..nCand : ~WriRequests[i].ok

FirstSuccess == CHOOSE i \in 1..Len(WriRequests) :
                    WriRequests[i].ok /\ \A j \in 1..(i - 1) : ~WriRequests[j].ok

(***************************************************************************)
(* C1.  From an empty data directory, for each primary source: a fetch     *)
(* that succeeds leaves the data file and its sidecar, a fetch that fails  *)
(* leaves neither, the CSV source leaving exactly README.txt in data/wri.  *)
(* Does not hold: a download that fails while the body is streamed leaves  *)
(* the truncated data file behind.                                         *)
(***************************************************************************)
C1_FetchLeavesBothOrNeither ==
    run = 1 =>
        \A s \in Sources :
            /\ returned[s] = "path" =>
                   exists(fs, data_file(s)) /\ exists(fs, sidecar(s))
            /\ returned[s] = "None" =>
                   /\ ~exists(fs, data_file(s))
                   /\ ~exists(fs, sidecar(s))
                   /\ s = "wri" => FilesIn(wri_dir) = {wri_readme}

(***************************************************************************)
(* C2.  As stated: when download_wri_sample has returned, README.txt       *)
(* exists in data/wri if and only if every candidate failed.  Does not     *)
(* hold when the file is there from an earlier run.                        *)
(***************************************************************************)
C2_ReadmeIffEveryCandidateFailed ==
    returned["wri"] # "pending" =>
        (exists(fs, wri_readme) <=> AllCandidatesFailed)

(***************************************************************************)
(* C2, amended.  When download_wri_sample has returned, README.txt exists  *)
(* if and only if it existed when the function was entered or every        *)
(* candidate failed; and when it returned a path (whichever candidates     *)
(* failed before), wri_sample.csv and wri_sample.json exist.               *)
(***************************************************************************)
C2_ReadmeIffFailedOrThereBefore ==
    returned["wri"] # "pending" =>
        /\ exists(fs, wri_readme) <=> (readme_before \/ AllCandidatesFailed)
        /\ returned["wri"] = "path" =>
               exists(fs, wri_csv) /\ exists(fs, wri_json)
        /\ returned["wri"] = "None" <=> AllCandidatesFailed

\* the second candidate succeeded after the first failed, over a README.txt
\* that an earlier run left
C2_Witness ==
    /\ returned["wri"] = "path"
    /\ readme_before
    /\ Len(WriRequests) = 2
    /\ ~WriRequests[1].ok
    /\ exists(fs, wri_readme)

(***************************************************************************)
(* C3.  The attempts of download_wri_sample are the candidates in listed   *)
(* order, without gaps or repeats, and every attempt but the last one      *)
(* failed: candidate k+1 is attempted only after candidate k failed, and   *)
(* nothing is attempted after a success.                                   *)
(***************************************************************************)
C3_CandidatesInOrderUntilSuccess ==
    /\ Len(WriRequests) <= nCand
    /\ \A i \in 1..Len(WriRequests) :
          /\ WriRequests[i].url = candidates(nCand)[i]
          /\ i < Len(WriRequests) => ~WriRequests[i].ok
    /\ (pc = "wri_loop" /\ wri_i > 1) => ~WriRequests[Len(WriRequests)].ok

\* a list of several candidates, the first of which succeeded: the function
\* returned with one attempt made
C3_Witness ==
    /\ nCand >= 2
    /\ returned["wri"] = "path"
    /\ Len(WriRequests) = 1
    /\ WriRequests[1].ok

(***************************************************************************)
(* C4.  Whatever the network, the HTTP status and the local file I/O do,   *)
(* main runs to its end and returns 0: no run ends with an uncaught        *)
(* error.  Does not hold: save_metadata, the README write and              *)
(* ensure_directory run outside http_download's try statement.             *)
(***************************************************************************)
C4_MainAlwaysReturnsZero == exit_status # 1 /\ pc # "crashed"

(***************************************************************************)
(* C6.  The success counter is between 0 and 3, never decreases during a   *)
(* run of main, and equals the number of orchestrators that returned a     *)
(* path (so far, and so at the end of main).                               *)
(***************************************************************************)
C6_SuccessCounter ==
    /\ [](/\ successes \in 0..3
          /\ successes = Cardinality({s \in Sources : returned[s] = "path"}))
    /\ [][run' = run => successes' >= successes]_vars

\* main has ended with some downloads succeeded and some failed
C6_Witness ==
    /\ pc = "done"
    /\ successes = 2
    /\ returned["earth_observatory"] = "None"

(***************************************************************************)
(* C8.  main enters its steps in the order worldview, earth observatory,   *)
(* WRI, placeholders, each once, and goes on to the next step whatever the *)
(* step before returned: the steps entered are always the prefix of the    *)
(* order that the position of main calls for.                              *)
(***************************************************************************)
C8_StepsInFixedOrder ==
    /\ steps = SubSeq(StepOrder, 1, Len(steps))
    /\ pc = "worldview" => Len(steps) = 0
    /\ pc = "earth_observatory" => Len(steps) = 1
    /\ pc = "wri" => Len(steps) = 2
    /\ pc \in {"wri_loop", "placeholders"} => Len(steps) = 3
    /\ pc = "done" => steps = StepOrder
    /\ \A s \in Sources : returned[s] # "pending" =>
          \E i \in 1..Len(steps) : steps[i] = s

\* every download failed and main still went through all four steps
C8_Witness ==
    /\ pc = "done"
    /\ \A s \in Sources : returned[s] = "None"
    /\ steps = StepOrder

(***************************************************************************)
(* C9.  After any number of runs, a metadata sidecar exists only if its    *)
(* data file exists.                                                       *)
(***************************************************************************)
C9_SidecarOnlyWithDataFile ==
    \A s \in Sources : exists(fs, sidecar(s)) => exists(fs, data_file(s))

\* a later run whose download failed half-way over the files of an earlier
\* successful run: the sidecar is whole, the data file truncated
C9_Witness ==
    /\ run >= 2
    /\ returned["worldview"] = "None"
    /\ exists(fs, worldview_json(DEFAULT_DATE))
    /\ fs[worldview_json(DEFAULT_DATE)] = json_dump(worldview_metadata(DEFAULT_DATE))
    /\ exists(fs, worldview_png(DEFAULT_DATE))
    /\ fs[worldview_png(DEFAULT_DATE)] # Body(wms(DEFAULT_DATE))

(***************************************************************************)
(* C10.  When download_wri_sample returned a path, wri_sample.csv holds    *)
(* exactly the whole body of the first candidate that succeeded, and the   *)
(* "url" of wri_sample.json is that candidate's URL.                       *)
(***************************************************************************)
C10_CsvIsFirstSuccessfulCandidate ==
    returned["wri"] = "path" =>
        /\ \E i \in 1..Len(WriRequests) : WriRequests[i].ok
        /\ fs[wri_csv] = Body(WriRequests[FirstSuccess].url)
        /\ json_load(fs[wri_json])["url"] = WriRequests[FirstSuccess].url
        /\ WriRequests[FirstSuccess].url = candidates(nCand)[FirstSuccess]

\* the first candidate failed after part of its body was written to
\* wri_sample.csv, the second succeeded
C10_Witness ==
    /\ returned["wri"] = "path"
    /\ Len(WriRequests) = 2
    /\ WriRequests[1].partial
    /\ WriRequests[2].ok

(***************************************************************************)
(* C5.  The placeholder writer is no-clobber and idempotent: a README.txt  *)
(* that exists in a provider folder before the writer runs, whatever it    *)
(* holds, is there with the same content afterwards; and a run of the      *)
(* writer after one that returned changes no file (and cannot fail).       *)
(***************************************************************************)
C5_NoClobberIdempotent ==
    [][/\ \A folder \in FolderSet :
             exists(fs, readme_path(folder)) =>
                 /\ exists(fs', readme_path(folder))
                 /\ fs'[readme_path(folder)] = fs[readme_path(folder)]
       /\ pc = "ph_once" => (pc' = "ph_twice" /\ fs' = fs)
       /\ pc' \in {"ph_once", "ph_twice"} =>
             \A folder \in FolderSet : exists(fs', readme_path(folder))]_vars

\* the writer has run twice over folders of which one held somebody's notes
\* and one an empty README.txt, and both are as they were
C5_Witness ==
    /\ pc = "ph_twice"
    /\ \A folder \in FolderSet : exists(fs, readme_path(folder))
    /\ fs[readme_path("sedac")] = <<"my own notes">>
    /\ fs[readme_path("ghsl")] = <<>>
    /\ fs[readme_path("worldpop")] = placeholders("worldpop")

(***************************************************************************)
(* C7.  http_download never lets an error out: when the connection, the    *)
(* status, the creation of the parent directory, the open or a write of    *)
(* the body fails it returns False, and it returns True only with the      *)
(* whole response body at the destination path.                            *)
(***************************************************************************)
HttpFailed ==
    \/ call.outcome.stage \in {"get", "status", "open"}
    \/ call.outcome.stage = "mkdir" /\ parent(call.out_path) \notin call.had_dir
    \/ call.outcome.stage = "write" /\ call.outcome.k < Len(iter_content(call.url))

C7_HttpDownloadReturnsFalseOnAnyError ==
    pc = "http_done" =>
        /\ call.exc = ""
        /\ HttpFailed => ~call.ret
        /\ call.ret => /\ exists(fs, call.out_path)
                       /\ fs[call.out_path] = Body(call.url)

\* a write failed after the first chunk: False is returned, the truncated file stays
C7_Witness ==
    /\ pc = "http_done"
    /\ call.outcome.stage = "write"
    /\ call.outcome.k = 1
    /\ ~call.ret
    /\ call.exc = ""
    /\ exists(fs, call.out_path)
    /\ Len(fs[call.out_path]) = 1
=============================================================================
